---- MODULE Spec2Model ----
(***************************************************************************)
(* Model of the Riptide crypto-node template: the Express entry point      *)
(* (index.js) and the hook implementations (hooks.js, carried inside       *)
(* scripts/setup.sh, lines 338-636).                                       *)
(*                                                                         *)
(* Spec      the server process: startup, signals, HTTP requests.          *)
(* HookSpec  the hook handlers applied to bounded contexts.                *)
(* FrameSpec every operation but installSecrets, on the full registry.     *)
(* PortSpec  startup under every PORT variable and configured port.        *)
(***************************************************************************)
EXTENDS Integers, Sequences, FiniteSets

VARIABLES
  hooks,            \* the hook registry required by index.js: name -> implementation
  initState,        \* riptide.initialize(): "pending" | "resolved" | "rejected"
  listening,        \* app.listen has been called
  exitCode,         \* NotExited, or the code the process ended with
  exitCause,        \* which code path ended the process
  signals,          \* the termination signals delivered so far
  shutdownCalls,    \* number of invocations of riptide.shutdown()
  shutdownPending,  \* shutdown() promises not yet settled
  shutdownDone,     \* shutdown() promises that resolved
  errorLog,         \* what console.error has printed
  served,           \* number of HTTP requests answered
  servedAfterSignal,\* of these, how many were accepted after a signal
  errSeen,          \* an earlier request was answered with HTTP 500
  response,         \* the last HTTP response
  env,              \* process.env
  clock,            \* seconds since process start
  hookInput,        \* the arguments of the last direct hook invocation
  hookResult,       \* its outcome
  configPort,       \* config.service.port as loaded from riptide.config.json
  PORT              \* the constant PORT of index.js, handed to app.listen

serverVars == <<initState, listening, exitCode, exitCause, signals, shutdownCalls,
                shutdownPending, shutdownDone, errorLog>>
httpVars   == <<served, servedAfterSignal, errSeen, response>>
hookVars   == <<hookInput, hookResult>>
loadVars   == <<configPort, PORT>>
vars == <<hooks, serverVars, httpVars, env, clock, hookVars, loadVars>>

----------------------------------------------------------------------------
(* Bounds *)
MaxSignals  == 2
MaxRequests == 2
MaxClock    == 1

NotExited == -1

----------------------------------------------------------------------------
(* JavaScript values.  A number is held in tenths so that 1.5 is           *)
(* representable: Num(15) is 1.5 and Num(10) is 1.                         *)
Undef     == [t |-> "undefined"]
Null      == [t |-> "null"]
NaN       == [t |-> "nan"]
Num(n)    == [t |-> "number", v |-> n]
Int10(i)  == Num(10 * i)
Str(cs)   == [t |-> "string", s |-> cs]
Bool(b)   == [t |-> "boolean", b |-> b]

\* ToBoolean: the test applied by `!x` and `x || y`
Truthy(x) ==
  CASE x.t = "undefined" -> FALSE
    [] x.t = "null"      -> FALSE
    [] x.t = "nan"       -> FALSE
    [] x.t = "number"    -> x.v # 0
    [] x.t = "string"    -> x.s # <<>>
    [] x.t = "boolean"   -> x.b
    [] OTHER             -> TRUE

\* a || b
OrElse(a, b) == IF Truthy(a) THEN a ELSE b

\* An object is its own properties in insertion order: <<key, value>> pairs.
Obj(es)    == [t |-> "object", e |-> es]
Symbol     == [t |-> "symbol"]
Nullish(x) == x.t \in {"undefined", "null"}
Has(o, k)  == o.t = "object" /\ \E i \in DOMAIN o.e : o.e[i][1] = k
\* o.k for a non-nullish o (a missing property reads as undefined)
Get(o, k)  == IF Has(o, k)
              THEN o.e[CHOOSE i \in DOMAIN o.e : o.e[i][1] = k][2]
              ELSE Undef
\* o?.k
OptGet(o, k) == IF Nullish(o) THEN Undef ELSE Get(o, k)

\* A string is a sequence of symbols; text that is never parsed is held as
\* one symbol.  StringToNumber reads a string of decimal digits.
Digits == <<"0", "1", "2", "3", "4", "5", "6", "7", "8", "9">>
IsDigit(c) == \E d \in DOMAIN Digits : Digits[d] = c
DigitVal(c) == (CHOOSE d \in DOMAIN Digits : Digits[d] = c) - 1

RECURSIVE DecimalValue(_)
DecimalValue(cs) ==
  IF cs = <<>> THEN 0
  ELSE 10 * DecimalValue(SubSeq(cs, 1, Len(cs) - 1)) + DigitVal(cs[Len(cs)])

StringToNumber(cs) ==
  IF cs = <<>> THEN Int10(0)
  ELSE IF \A i \in DOMAIN cs : IsDigit(cs[i]) THEN Int10(DecimalValue(cs))
  ELSE NaN

\* ToNumber, as applied by the relational operators
ToNumber(x) ==
  CASE x.t = "undefined" -> NaN
    [] x.t = "null"      -> Int10(0)
    [] x.t = "boolean"   -> IF x.b THEN Int10(1) ELSE Int10(0)
    [] x.t = "number"    -> x
    [] x.t = "string"    -> StringToNumber(x.s)
    [] OTHER             -> NaN

\* x < n and x > n for a number literal n: false when either side is NaN
Less(x, n)    == LET a == ToNumber(x) IN a.t = "number" /\ a.v < n.v
Greater(x, n) == LET a == ToNumber(x) IN a.t = "number" /\ a.v > n.v

\* completion records of an async function
Return(v) == [kind |-> "return", value |-> v]
Throw(e)  == [kind |-> "throw", error |-> e]
Error(m)     == [name |-> "Error", message |-> m]
TypeError(m) == [name |-> "TypeError", message |-> m]

\* new Date().toISOString() at time t
ISOString(t) == <<"ISO-8601", t>>

----------------------------------------------------------------------------
(* Helper functions of hooks.js.  The template's helpers are stubs; `faults`*)
(* says how their real implementations deviate on this call: a helper's    *)
(* name when it throws, and "<name>=false" when a check answers false.     *)
HelperNames == {"checkNodeHealth", "getNodeInfo", "getNetworkStatus",
                "checkDatabaseConnection", "checkNetworkConnection",
                "checkWalletStatus", "getNodeMetrics", "getNetworkMetrics"}

Failed(h) == Throw(Error(h))

getNodeInfo(faults, e) ==
  IF "getNodeInfo" \in faults THEN Failed("getNodeInfo")
  ELSE Return([nodeId   |-> OrElse(e["NODE_ID"], Str(<<"unknown">>)),
               version  |-> OrElse(e["npm_package_version"], Str(<<"1.0.0">>)),
               network  |-> OrElse(e["NETWORK"], Str(<<"mainnet">>)),
               nodeType |-> OrElse(e["NODE_TYPE"], Str(<<"validator">>))])

getNetworkStatus(faults) ==
  IF "getNetworkStatus" \in faults THEN Failed("getNetworkStatus")
  ELSE Return([connected |-> TRUE, peerCount |-> 25, networkId |-> 1,
               chainId |-> "0x1"])

getNodeMetrics(faults) ==
  IF "getNodeMetrics" \in faults THEN Failed("getNodeMetrics")
  ELSE Return([blocksProcessed |-> 1234567, transactionsProcessed |-> 9876543,
               averageBlockTime |-> Num(125)])

getNetworkMetrics(faults) ==
  IF "getNetworkMetrics" \in faults THEN Failed("getNetworkMetrics")
  ELSE Return([totalPeers |-> 25, activeConnections |-> 20,
               networkLatency |-> 45])

\* process.memoryUsage(), process.cpuUsage(): opaque runtime snapshots
memoryUsage == [rss |-> "bytes", heapUsed |-> "bytes"]
cpuUsage    == [user |-> "micros", system |-> "micros"]

----------------------------------------------------------------------------
(* Hook handlers.  Each is `try { body } catch (error) { handler }`.       *)

statusBody(context, faults, e, now) ==
  LET nodeInfo == getNodeInfo(faults, e) IN
  IF nodeInfo.kind = "throw" THEN nodeInfo
  ELSE LET networkStatus == getNetworkStatus(faults) IN
    IF networkStatus.kind = "throw" THEN networkStatus
    ELSE Return([service |-> "crypto-node",
                 version |-> OrElse(e["npm_package_version"], Str(<<"1.0.0">>)),
                 status |-> "running",
                 nodeInfo |-> nodeInfo.value,
                 networkStatus |-> networkStatus.value,
                 timestamp |-> ISOString(now)])

\* status without its try/catch
status_nocatch(context, faults, e, now) ==
  statusBody(context, faults, e, now)

status(context, faults, e, now) ==
  LET r == statusBody(context, faults, e, now) IN
  IF r.kind = "throw"
  THEN Return([service |-> "crypto-node", status |-> "error",
               error |-> r.error.message, timestamp |-> ISOString(now)])
  ELSE r

metricsBody(context, faults, e, now) ==
  LET nodeMetrics == getNodeMetrics(faults) IN
  IF nodeMetrics.kind = "throw" THEN nodeMetrics
  ELSE LET networkMetrics == getNetworkMetrics(faults) IN
    IF networkMetrics.kind = "throw" THEN networkMetrics
    ELSE Return([timestamp |-> ISOString(now),
                 node |-> nodeMetrics.value,
                 network |-> networkMetrics.value,
                 system |-> [memory |-> memoryUsage, cpu |-> cpuUsage,
                             uptime |-> now]])

\* metrics whose catch block reports what it had collected so far
metrics_partial(context, faults, e, now) ==
  LET r == metricsBody(context, faults, e, now) IN
  IF r.kind = "throw"
  THEN Return([error |-> r.error.message, timestamp |-> ISOString(now),
               node |-> getNodeMetrics({}).value])
  ELSE r

metrics(context, faults, e, now) ==
  LET r == metricsBody(context, faults, e, now) IN
  IF r.kind = "throw"
  THEN Return([error |-> r.error.message, timestamp |-> ISOString(now)])
  ELSE r

checkNodeHealth(faults) ==
  IF "checkNodeHealth" \in faults THEN Failed("checkNodeHealth")
  ELSE Return([synced |-> TRUE, blockHeight |-> 1234567, peers |-> 25])

checkDatabaseConnection(faults) ==
  IF "checkDatabaseConnection" \in faults
  THEN Failed("checkDatabaseConnection")
  ELSE Return("checkDatabaseConnection=false" \notin faults)

checkNetworkConnection(faults) ==
  IF "checkNetworkConnection" \in faults
  THEN Failed("checkNetworkConnection")
  ELSE Return("checkNetworkConnection=false" \notin faults)

checkWalletStatus(faults) ==
  IF "checkWalletStatus" \in faults
  THEN Failed("checkWalletStatus")
  ELSE Return("checkWalletStatus=false" \notin faults)

pid == "pid"

heartbeatBody(context, faults, e, now) ==
  LET nodeStatus == checkNodeHealth(faults) IN
  IF nodeStatus.kind = "throw" THEN nodeStatus
  ELSE Return([timestamp |-> ISOString(now), status |-> "healthy",
               nodeStatus |-> nodeStatus.value, uptime |-> now,
               memory |-> memoryUsage, pid |-> pid])

\* heartbeat whose catch returns no timestamp
heartbeat_nostamp(context, faults, e, now) ==
  LET r == heartbeatBody(context, faults, e, now) IN
  IF r.kind = "throw"
  THEN Return([status |-> "unhealthy", error |-> r.error.message])
  ELSE r

heartbeat(context, faults, e, now) ==
  LET r == heartbeatBody(context, faults, e, now) IN
  IF r.kind = "throw"
  THEN Return([timestamp |-> ISOString(now), status |-> "unhealthy",
               error |-> r.error.message])
  ELSE r

\* readyBody that leaves the wallet check out of the conjunction
readyBody_nowallet(context, faults, e, now) ==
  LET isDatabaseReady == checkDatabaseConnection(faults) IN
  IF isDatabaseReady.kind = "throw" THEN isDatabaseReady
  ELSE LET isNetworkReady == checkNetworkConnection(faults) IN
    IF isNetworkReady.kind = "throw" THEN isNetworkReady
    ELSE LET isWalletReady == checkWalletStatus(faults) IN
      IF isWalletReady.kind = "throw" THEN isWalletReady
      ELSE Return([ready |-> isDatabaseReady.value /\ isNetworkReady.value,
                   checks |-> [database |-> isDatabaseReady.value,
                               network |-> isNetworkReady.value,
                               wallet |-> isWalletReady.value]])

readyBody(context, faults, e, now) ==
  LET isDatabaseReady == checkDatabaseConnection(faults) IN
  IF isDatabaseReady.kind = "throw" THEN isDatabaseReady
  ELSE LET isNetworkReady == checkNetworkConnection(faults) IN
    IF isNetworkReady.kind = "throw" THEN isNetworkReady
    ELSE LET isWalletReady == checkWalletStatus(faults) IN
      IF isWalletReady.kind = "throw" THEN isWalletReady
      ELSE Return([ready |-> isDatabaseReady.value /\ isNetworkReady.value
                               /\ isWalletReady.value,
                   checks |-> [database |-> isDatabaseReady.value,
                               network |-> isNetworkReady.value,
                               wallet |-> isWalletReady.value]])

ready(context, faults, e, now) ==
  LET r == readyBody(context, faults, e, now) IN
  IF r.kind = "throw"
  THEN Return([ready |-> FALSE, error |-> r.error.message])
  ELSE r

\* probe measuring its uptime backwards (start minus now)
probeBody_backwards(context, faults, e, now) ==
  Return([alive |-> TRUE, timestamp |-> ISOString(now), uptime |-> 0 - now])

probeBody(context, faults, e, now) ==
  Return([alive |-> TRUE, timestamp |-> ISOString(now), uptime |-> now])

probe(context, faults, e, now) ==
  LET r == probeBody(context, faults, e, now) IN
  IF r.kind = "throw"
  THEN Return([alive |-> FALSE, error |-> r.error.message])
  ELSE r

\* Reading property k of undefined or null
CannotRead(x, k) ==
  Throw(TypeError(IF x.t = "null"
                  THEN IF k = "config" THEN "Cannot read properties of null (reading 'config')"
                       ELSE IF k = "service" THEN "Cannot read properties of null (reading 'service')"
                       ELSE "Cannot read properties of null (reading 'secrets')"
                  ELSE IF k = "config" THEN "Cannot read properties of undefined (reading 'config')"
                       ELSE IF k = "service" THEN "Cannot read properties of undefined (reading 'service')"
                       ELSE "Cannot read properties of undefined (reading 'secrets')"))

NameRequired == "Service name is required"
PortRequired == "Valid service port is required"

\* validateRules with the port rule written before the name rule
validateRules_portfirst(config) ==
  LET service == Get(config, "service")
      r0 == [valid |-> TRUE, errors |-> <<>>]
      r1 == IF \/ ~Truthy(OptGet(service, "port"))
               \/ Less(Get(service, "port"), Int10(1))
               \/ Greater(Get(service, "port"), Int10(65535))
            THEN [valid |-> FALSE, errors |-> Append(r0.errors, PortRequired)]
            ELSE r0
      r2 == IF ~Truthy(OptGet(service, "name"))
            THEN [valid |-> FALSE, errors |-> Append(r1.errors, NameRequired)]
            ELSE r1
  IN r2

\* the two rule checks of validate, applied in order to validationResults
\* (config.service.port is read only when config.service?.port was truthy,
\* so the unguarded read cannot fail)
validateRules(config) ==
  LET service == Get(config, "service")
      r0 == [valid |-> TRUE, errors |-> <<>>]
      r1 == IF ~Truthy(OptGet(service, "name"))
            THEN [valid |-> FALSE, errors |-> Append(r0.errors, NameRequired)]
            ELSE r0
      r2 == IF \/ ~Truthy(OptGet(service, "port"))
               \/ Less(Get(service, "port"), Int10(1))
               \/ Greater(Get(service, "port"), Int10(65535))
            THEN [valid |-> FALSE, errors |-> Append(r1.errors, PortRequired)]
            ELSE r1
  IN r2

validateBody(context, faults, e, now) ==
  IF Nullish(context) THEN CannotRead(context, "config")
  ELSE LET config == Get(context, "config") IN
    IF Nullish(config) THEN CannotRead(config, "service")
    ELSE Return(validateRules(config))

\* validate without its try/catch
validate_nocatch(context, faults, e, now) ==
  validateBody(context, faults, e, now)

\* validate whose catch puts a generic line in front of the message
validate_twolines(context, faults, e, now) ==
  LET r == validateBody(context, faults, e, now) IN
  IF r.kind = "throw"
  THEN Return([valid |-> FALSE,
               errors |-> <<"Validation failed", r.error.message>>])
  ELSE r

\* validate whose catch block reports the failure without an error entry
validate_noerrors(context, faults, e, now) ==
  LET r == validateBody(context, faults, e, now) IN
  IF r.kind = "throw"
  THEN Return([valid |-> FALSE, errors |-> <<>>])
  ELSE r

validate(context, faults, e, now) ==
  LET r == validateBody(context, faults, e, now) IN
  IF r.kind = "throw"
  THEN Return([valid |-> FALSE, errors |-> <<r.error.message>>])
  ELSE r

\* String(n) for a number held in tenths
RECURSIVE DecimalDigits(_)
DecimalDigits(n) ==
  IF n < 10 THEN <<Digits[n + 1]>>
  ELSE Append(DecimalDigits(n \div 10), Digits[(n % 10) + 1])

NumberToString(v) ==
  LET a == IF v < 0 THEN -v ELSE v
      whole == DecimalDigits(a \div 10)
      frac  == IF a % 10 = 0 THEN <<>> ELSE <<".", Digits[(a % 10) + 1]>>
  IN (IF v < 0 THEN <<"-">> ELSE <<>>) \o whole \o frac

\* ToString, as applied by the process.env setter; a Symbol cannot be converted
ToString(x) ==
  CASE x.t = "string"    -> Return(x)
    [] x.t = "number"    -> Return(Str(NumberToString(x.v)))
    [] x.t = "undefined" -> Return(Str(<<"undefined">>))
    [] x.t = "null"      -> Return(Str(<<"null">>))
    [] x.t = "nan"       -> Return(Str(<<"NaN">>))
    [] x.t = "boolean"   -> Return(Str(IF x.b THEN <<"true">> ELSE <<"false">>))
    [] x.t = "symbol"    -> Throw(TypeError("Cannot convert a Symbol value to a string"))
    [] OTHER             -> Return(Str(<<"[object Object]">>))

\* Object.entries
Entries(x) == IF x.t = "object" THEN x.e ELSE <<>>

\* the for-loop of installSecrets from entry i on: the environment and the
\* installedSecrets object it leaves, and whether an assignment threw
RECURSIVE installLoop(_, _, _, _)
installLoop(entries, i, e, installed) ==
  IF i > Len(entries)
  THEN [kind |-> "return", env |-> e, installed |-> installed]
  ELSE LET key   == entries[i][1]
           value == ToString(entries[i][2])
       IN IF value.kind = "throw"
          THEN [kind |-> "throw", error |-> value.error, env |-> e,
                installed |-> installed]
          ELSE installLoop(entries, i + 1, [e EXCEPT ![key] = value.value],
                           Append(installed, <<key, "installed">>))

\* installSecrets replacing the installed set: a secret variable that the
\* given secrets do not name is deleted first
installSecretsRun_replace(context, faults, e, now) ==
  IF Nullish(context)
  THEN [out |-> CannotRead(context, "secrets"), env |-> e]
  ELSE LET secrets == OrElse(Get(context, "secrets"), Obj(<<>>))
           cleared == [n \in DOMAIN e |->
                         IF n \in {"API_KEY", "PRIVATE_KEY"} THEN Undef ELSE e[n]]
           l == installLoop(Entries(secrets), 1, cleared, <<>>)
       IN IF l.kind = "throw"
          THEN [out |-> Throw(l.error), env |-> l.env]
          ELSE [out |-> Return([success |-> TRUE,
                                installed |-> Obj(l.installed),
                                timestamp |-> ISOString(now)]),
                env |-> l.env]

\* installSecrets installing only the names that are not set yet
installSecretsRun_once(context, faults, e, now) ==
  IF Nullish(context)
  THEN [out |-> CannotRead(context, "secrets"), env |-> e]
  ELSE LET secrets == OrElse(Get(context, "secrets"), Obj(<<>>))
           Fresh(entry) == e[entry[1]] = Undef
           l == installLoop(SelectSeq(Entries(secrets), Fresh), 1, e, <<>>)
       IN IF l.kind = "throw"
          THEN [out |-> Throw(l.error), env |-> l.env]
          ELSE [out |-> Return([success |-> TRUE,
                                installed |-> Obj(l.installed),
                                timestamp |-> ISOString(now)]),
                env |-> l.env]

\* installSecrets whose loop records the names without assigning process.env
installSecretsRun_noenv(context, faults, e, now) ==
  IF Nullish(context)
  THEN [out |-> CannotRead(context, "secrets"), env |-> e]
  ELSE LET secrets == OrElse(Get(context, "secrets"), Obj(<<>>))
           l == installLoop(Entries(secrets), 1, e, <<>>)
       IN IF l.kind = "throw"
          THEN [out |-> Throw(l.error), env |-> e]
          ELSE [out |-> Return([success |-> TRUE,
                                installed |-> Obj(l.installed),
                                timestamp |-> ISOString(now)]),
                env |-> e]

\* installSecrets run to completion: [out |-> its completion, env |-> process.env after]
installSecretsRun(context, faults, e, now) ==
  IF Nullish(context)
  THEN [out |-> CannotRead(context, "secrets"), env |-> e]
  ELSE LET secrets == OrElse(Get(context, "secrets"), Obj(<<>>))
           l == installLoop(Entries(secrets), 1, e, <<>>)
       IN IF l.kind = "throw"
          THEN [out |-> Throw(l.error), env |-> l.env]
          ELSE [out |-> Return([success |-> TRUE,
                                installed |-> Obj(l.installed),
                                timestamp |-> ISOString(now)]),
                env |-> l.env]

installSecretsBody(context, faults, e, now) ==
  installSecretsRun(context, faults, e, now).out

installSecrets(context, faults, e, now) ==
  LET r == installSecretsBody(context, faults, e, now) IN
  IF r.kind = "throw"
  THEN Return([success |-> FALSE, error |-> r.error.message])
  ELSE r

----------------------------------------------------------------------------
(* The hook registry (module.exports of hooks.js) and its callers.         *)
HookNames == {"heartbeat", "status", "ready", "probe", "metrics", "validate",
              "installSecrets"}

\* An entry is absent, the template's handler, or a deployer's own handler.
Impl == {"absent", "template", "custom"}

\* the registry as exported by the template
Exported == [h \in HookNames |->
               IF h \in {"heartbeat", "status"} THEN "template" ELSE "absent"]

AllTemplate == [h \in HookNames |-> "template"]

\* what a deployer's own handler can do when called
CustomOutcomes == {Return([custom |-> "result"]),
                   Throw(Error("custom hook failed"))}

\* a status handler whose getNodeInfo stores its default node id
EnvAfter_defaults(name, context, faults, e, now) ==
  IF name = "installSecrets"
  THEN installSecretsRun(context, faults, e, now).env
  ELSE IF name = "status"
  THEN [e EXCEPT !["NODE_ID"] = OrElse(e["NODE_ID"], Str(<<"unknown">>))]
  ELSE e

\* process.env after the template's handler `name` has run: installSecrets
\* assigns to it, the other handlers and their helpers only read it
EnvAfter(name, context, faults, e, now) ==
  IF name = "installSecrets"
  THEN installSecretsRun(context, faults, e, now).env
  ELSE e

Template(name, context, faults, e, now) ==
  CASE name = "heartbeat" -> heartbeat(context, faults, e, now)
    [] name = "status"    -> status(context, faults, e, now)
    [] name = "ready"     -> ready(context, faults, e, now)
    [] name = "probe"     -> probe(context, faults, e, now)
    [] name = "metrics"   -> metrics(context, faults, e, now)
    [] name = "validate"  -> validate(context, faults, e, now)
    [] OTHER              -> installSecrets(context, faults, e, now)

NotAFunction(name) ==
  IF name = "status" THEN "hooks.status is not a function"
  ELSE "hooks.metrics is not a function"

\* hooks.<name>(context): calling a missing property throws a TypeError
InvokeHook(r, name, context, faults, custom, e, now) ==
  CASE r[name] = "absent" -> Throw(TypeError(NotAFunction(name)))
    [] r[name] = "custom" -> custom
    [] OTHER              -> Template(name, context, faults, e, now)

----------------------------------------------------------------------------
(* Routes of index.js.  A route yields the response it sends.              *)
Res(code, body) == [kind |-> "response", code |-> code, body |-> body]

NotImplemented == [message |-> "Metrics hook not implemented"]

\* healthRoute without res.status(500): the error body goes out with 200
healthRoute_no500(r, faults, custom, e, now) ==
  LET st == InvokeHook(r, "status", Undef, faults, custom, e, now) IN
  IF st.kind = "return" THEN Res(200, st.value)
  ELSE Res(200, [error |-> st.error.message])

healthRoute(r, faults, custom, e, now) ==
  LET st == InvokeHook(r, "status", Undef, faults, custom, e, now) IN
  IF st.kind = "return" THEN Res(200, st.value)
  ELSE Res(500, [error |-> st.error.message])

\* metricsRoute without the `if (hooks.metrics)` test
metricsRoute_nocheck(r, faults, custom, e, now) ==
  LET m == InvokeHook(r, "metrics", Undef, faults, custom, e, now) IN
  IF m.kind = "return" THEN Res(200, m.value)
  ELSE Res(500, [error |-> m.error.message])

metricsRoute(r, faults, custom, e, now) ==
  IF r["metrics"] # "absent"
  THEN LET m == InvokeHook(r, "metrics", Undef, faults, custom, e, now) IN
       IF m.kind = "return" THEN Res(200, m.value)
       ELSE Res(500, [error |-> m.error.message])
  ELSE Res(200, NotImplemented)

\* statusRoute guarding its hook as /metrics does
statusRoute_guarded(r, faults, custom, e, now) ==
  IF r["status"] # "absent"
  THEN LET st == InvokeHook(r, "status", Undef, faults, custom, e, now) IN
       IF st.kind = "return" THEN Res(200, st.value)
       ELSE Res(500, [error |-> st.error.message])
  ELSE Res(200, [message |-> "Status hook not implemented"])

statusRoute(r, faults, custom, e, now) ==
  LET st == InvokeHook(r, "status", Undef, faults, custom, e, now) IN
  IF st.kind = "return" THEN Res(200, st.value)
  ELSE Res(500, [error |-> st.error.message])

\* service.description of riptide.config.json: a text
configDescription == Str(<<"Crypto node service">>)

\* riptide.config.json as documented in the README, with its description
config == [service |-> [name |-> "crypto-node-service", version |-> "1.0.0",
                        port |-> 3000, description |-> configDescription],
           riptide |-> [enabled |-> TRUE, heartbeatInterval |-> 30000,
                        statusCheckInterval |-> 60000, metricsEnabled |-> TRUE]]

\* rootRoute reporting the status hook's status instead of 'running'
rootRoute_viahook(r, faults, custom, e, now) ==
  LET st == InvokeHook(r, "status", Undef, faults, custom, e, now) IN
  IF st.kind = "return"
  THEN Res(200, [service |-> config.service.name,
                 version |-> config.service.version,
                 description |-> config.service.description,
                 status |-> "running",
                 timestamp |-> ISOString(now)])
  ELSE Res(500, [error |-> st.error.message])

\* res.json serialises the object: a property whose value is undefined is
\* left out of the body
rootRoute(r, faults, custom, e, now) ==
  IF config.service.description = Undef
  THEN Res(200, [service |-> config.service.name,
                 version |-> config.service.version,
                 status |-> "running",
                 timestamp |-> ISOString(now)])
  ELSE Res(200, [service |-> config.service.name,
                 version |-> config.service.version,
                 description |-> config.service.description,
                 status |-> "running",
                 timestamp |-> ISOString(now)])

----------------------------------------------------------------------------
(* Startup and shutdown of index.js.                                       *)

\* startServer whose catch block logs but does not call process.exit
startServer_noexit(outcome) ==
  IF outcome = "resolved"
  THEN [listening |-> TRUE, exit |-> NotExited, log |-> {}]
  ELSE [listening |-> FALSE, exit |-> NotExited,
        log |-> {"Failed to start server"}]

\* startServer that does not await riptide.initialize() before app.listen
startServer_noawait(outcome) ==
  [listening |-> TRUE, exit |-> NotExited, log |-> {}]

\* PORT taking the configured port before the environment variable
selectPort_configfirst(e, port) ==
  OrElse(OrElse(port, e["PORT"]), Int10(3000))

\* const PORT = process.env.PORT || config.service.port || 3000
selectPort(e, port) ==
  OrElse(OrElse(e["PORT"], port), Int10(3000))

\* startServer once riptide.initialize() has settled
startServer(outcome) ==
  IF outcome = "resolved"
  THEN [listening |-> TRUE, exit |-> NotExited, log |-> {}]
  ELSE [listening |-> FALSE, exit |-> 1, log |-> {"Failed to start server"}]

\* the SIGTERM handler without `await`: it exits right after calling shutdown
onSIGTERM_noawait(step) ==
  CASE step = "received" -> [shutdown |-> TRUE, exit |-> 0]
    [] step = "resolved" -> [shutdown |-> FALSE, exit |-> 0]
    [] OTHER             -> [shutdown |-> FALSE, exit |-> 1]

\* The SIGTERM handler at each of its steps: on receipt it calls
\* riptide.shutdown() and awaits; when the promise resolves it exits 0; when
\* it rejects nothing handles the rejection and Node (18+) ends the process
\* with code 1.
onSIGTERM(step) ==
  CASE step = "received" -> [shutdown |-> TRUE, exit |-> NotExited]
    [] step = "resolved" -> [shutdown |-> FALSE, exit |-> 0]
    [] OTHER             -> [shutdown |-> FALSE, exit |-> 1]

onSIGINT(step) ==
  CASE step = "received" -> [shutdown |-> TRUE, exit |-> NotExited]
    [] step = "resolved" -> [shutdown |-> FALSE, exit |-> 0]
    [] OTHER             -> [shutdown |-> FALSE, exit |-> 1]

onSignal(sig, step) ==
  IF sig = "SIGTERM" THEN onSIGTERM(step) ELSE onSIGINT(step)

----------------------------------------------------------------------------
(* Inputs *)
EnvNames == {"npm_package_version", "NODE_ID", "NETWORK", "NODE_TYPE",
             "API_KEY", "PRIVATE_KEY", "PORT"}

Unset == [n \in EnvNames |-> Undef]

Environments ==
  {Unset, [Unset EXCEPT !["NODE_ID"] = Str(<<"node-1">>),
                        !["npm_package_version"] = Str(<<"2.0.0">>)]}

\* the registries a deployment may export: the two required hooks and
\* metrics vary freely, the remaining optional hooks are all in or all out
Registries ==
  {r \in [HookNames -> Impl] :
     /\ r["heartbeat"] = "template"
     /\ r["ready"] # "custom"
     /\ \A h \in {"probe", "validate", "installSecrets"} : r[h] = r["ready"]}

\* helpers failing during one call: none, any one, or all
FaultSets == {{}} \cup {{h} : h \in HelperNames} \cup {HelperNames}

NoInput  == [hook |-> "none"]
NoResult == [kind |-> "none"]
NoResponse == [route |-> "none", code |-> 0, body |-> [none |-> TRUE],
               hook |-> "none", outcome |-> NoResult]

\* the module body of index.js has run, up to the call of startServer
Started ==
  /\ hooks \in Registries
  /\ initState = "pending"
  /\ listening = FALSE
  /\ exitCode = NotExited
  /\ exitCause = "none"
  /\ signals = <<>>
  /\ shutdownCalls = 0
  /\ shutdownPending = <<>>
  /\ shutdownDone = 0
  /\ errorLog = {}
  /\ served = 0
  /\ servedAfterSignal = 0
  /\ errSeen = FALSE
  /\ response = NoResponse
  /\ clock = 0
  /\ hookInput = NoInput
  /\ hookResult = NoResult
  /\ PORT = selectPort(env, configPort)

Init ==
  /\ env \in Environments
  /\ configPort = Int10(config.service.port)
  /\ Started

Running == exitCode = NotExited

----------------------------------------------------------------------------
(* Server process *)

\* riptide.initialize() settles and startServer continues (index.js 79-92)
InitializeSettles(outcome) ==
  /\ Running
  /\ initState = "pending"
  /\ initState' = outcome
  /\ LET s == startServer(outcome) IN
       /\ listening' = s.listening
       /\ exitCode' = s.exit
       /\ exitCause' = IF s.exit = NotExited THEN exitCause ELSE "startServer"
       /\ errorLog' = errorLog \cup s.log
  /\ UNCHANGED <<hooks, signals, shutdownCalls, shutdownPending, shutdownDone,
                 httpVars, env, clock, hookVars, loadVars>>

InitializeResolves == InitializeSettles("resolved")
InitializeRejects  == InitializeSettles("rejected")

\* a termination signal is delivered and its handler runs up to its await
Signal(sig) ==
  /\ Running
  /\ Len(signals) < MaxSignals
  /\ signals' = Append(signals, sig)
  /\ LET h == onSignal(sig, "received") IN
       /\ shutdownCalls' = shutdownCalls + (IF h.shutdown THEN 1 ELSE 0)
       /\ shutdownPending' = IF h.shutdown /\ h.exit = NotExited
                             THEN Append(shutdownPending, sig)
                             ELSE shutdownPending
       /\ exitCode' = h.exit
       /\ exitCause' = IF h.exit = NotExited THEN exitCause ELSE sig
  /\ UNCHANGED <<hooks, initState, listening, shutdownDone, errorLog,
                 httpVars, env, clock, hookVars, loadVars>>

SIGTERM == Signal("SIGTERM")
SIGINT  == Signal("SIGINT")

Remove(q, i) == SubSeq(q, 1, i - 1) \o SubSeq(q, i + 1, Len(q))

\* a pending riptide.shutdown() settles and the awaiting handler continues
ShutdownSettles(outcome) ==
  /\ Running
  /\ \E i \in DOMAIN shutdownPending :
       /\ shutdownPending' = Remove(shutdownPending, i)
       /\ exitCode' = onSignal(shutdownPending[i], outcome).exit
       /\ exitCause' = IF exitCode' = NotExited THEN exitCause
                       ELSE IF outcome = "resolved" THEN shutdownPending[i]
                       ELSE "unhandled rejection in signal handler"
  /\ shutdownDone' = shutdownDone + (IF outcome = "resolved" THEN 1 ELSE 0)
  /\ UNCHANGED <<hooks, initState, listening, signals, shutdownCalls, errorLog,
                 httpVars, env, clock, hookVars, loadVars>>

ShutdownResolves == ShutdownSettles("resolved")
ShutdownRejects  == ShutdownSettles("rejected")

\* how the hook behind a route fared, for the record kept in `response`
Fate(r, name, o) ==
  IF name = "none" THEN "none"
  ELSE IF r[name] = "absent" THEN "absent"
  ELSE IF o.kind = "throw" THEN "threw" ELSE "returned"

\* process.env after a route has run: the route handlers do not touch it,
\* the template handler a route calls may
RouteEnv(r, name, faults, e, now) ==
  IF name # "none" /\ r[name] = "template"
  THEN EnvAfter(name, Undef, faults, e, now)
  ELSE e

\* what the hook behind a route did when the route called it
Called(r, name, faults, custom, e, now) ==
  IF r[name] = "absent" THEN NoResult
  ELSE InvokeHook(r, name, Undef, faults, custom, e, now)

\* the Express server answers one request; h is what the route handler did,
\* o what the hook behind it did and e2 the environment it left.  An exception escaping the async
\* handler is an unhandled rejection, which ends the process with code 1.
Serve(route, name, h, o, e2) ==
  /\ Running
  /\ listening
  /\ served < MaxRequests
  /\ IF h.kind = "response"
     THEN /\ response' = [route |-> route, code |-> h.code, body |-> h.body,
                          hook |-> Fate(hooks, name, o), outcome |-> o]
          /\ served' = served + 1
          /\ servedAfterSignal' =
               servedAfterSignal + (IF signals # <<>> THEN 1 ELSE 0)
          /\ errSeen' = (errSeen \/ response.code = 500)
          /\ UNCHANGED <<exitCode, exitCause>>
     ELSE /\ exitCode' = 1
          /\ exitCause' = "unhandled rejection in route"
          /\ UNCHANGED httpVars
  /\ env' = e2
  /\ UNCHANGED <<hooks, initState, listening, signals, shutdownCalls,
                 shutdownPending, shutdownDone, errorLog, clock, hookVars,
                 loadVars>>

GetHealth ==
  \E faults \in FaultSets, custom \in CustomOutcomes :
    Serve("/health", "status",
          healthRoute(hooks, faults, custom, env, clock),
          Called(hooks, "status", faults, custom, env, clock),
          RouteEnv(hooks, "status", faults, env, clock))

GetMetrics ==
  \E faults \in FaultSets, custom \in CustomOutcomes :
    Serve("/metrics", "metrics",
          metricsRoute(hooks, faults, custom, env, clock),
          Called(hooks, "metrics", faults, custom, env, clock),
          RouteEnv(hooks, "metrics", faults, env, clock))

GetStatus ==
  \E faults \in FaultSets, custom \in CustomOutcomes :
    Serve("/status", "status",
          statusRoute(hooks, faults, custom, env, clock),
          Called(hooks, "status", faults, custom, env, clock),
          RouteEnv(hooks, "status", faults, env, clock))

GetRoot ==
  Serve("/", "none", rootRoute(hooks, {}, NoResult, env, clock), NoResult,
        RouteEnv(hooks, "none", {}, env, clock))

\* time passes
Tick ==
  /\ Running
  /\ clock < MaxClock
  /\ clock' = clock + 1
  /\ UNCHANGED <<hooks, serverVars, httpVars, env, hookVars, loadVars>>

Next ==
  \/ InitializeResolves
  \/ InitializeRejects
  \/ SIGTERM
  \/ SIGINT
  \/ ShutdownResolves
  \/ ShutdownRejects
  \/ GetHealth
  \/ GetMetrics
  \/ GetStatus
  \/ GetRoot
  \/ Tick

Spec == Init /\ [][Next]_vars

----------------------------------------------------------------------------
(* The hook handlers invoked directly, as the orchestrator does.           *)

\* values tried for config.service.name and config.service.port
NameValues == {Undef, Null, Str(<<>>), Str(<<"crypto-node-service">>)}
PortValues == {Undef, Null, NaN, Int10(0), Int10(-1), Num(5), Int10(1),
               Num(15), Int10(3000), Int10(65535), Num(655355), Int10(65536),
               Int10(70000), Str(<<>>), Str(<<"8", "0", "8", "0">>),
               Str(<<"7", "0", "0", "0", "0">>), Str(<<"http">>), Bool(TRUE)}

ServiceValues ==
  {Undef, Obj(<<>>)}
  \cup {Obj(<< <<"name", n>> >>) : n \in NameValues \ {Undef}}
  \cup {Obj(<< <<"port", q>> >>) : q \in PortValues \ {Undef}}
  \cup {Obj(<< <<"name", n>>, <<"port", q>> >>) :
          n \in NameValues \ {Undef}, q \in PortValues \ {Undef}}

ConfigValues ==
  {Undef, Null, Obj(<<>>)} \cup {Obj(<< <<"service", sv>> >>) : sv \in ServiceValues \ {Undef}}

\* contexts without a config
BareContexts == {Undef, Null, Obj(<<>>)}

ConfigContexts ==
  BareContexts \cup {Obj(<< <<"config", c>> >>) : c \in ConfigValues \ {Undef}}

SecretKeys   == {"API_KEY", "PRIVATE_KEY"}
SecretValues == {Str(<<"s3cr3t">>), Int10(5), Symbol}

SecretObjects ==
  {Obj(<<>>)}
  \cup {Obj(<< <<k, v>> >>) : k \in SecretKeys, v \in SecretValues}
  \cup {Obj(<< <<ks[1], v1>>, <<ks[2], v2>> >>) :
          ks \in {q \in SecretKeys \X SecretKeys : q[1] # q[2]},
          v1 \in SecretValues, v2 \in SecretValues}

SecretContexts ==
  BareContexts \cup {Obj(<< <<"secrets", Null>> >>)}
  \cup {Obj(<< <<"secrets", x>> >>) : x \in SecretObjects}

\* one invocation of a registered template handler
Invoke(name, context, faults) ==
  /\ Running
  /\ hooks[name] = "template"
  /\ hookInput' = [hook |-> name, context |-> context, faults |-> faults,
                   env |-> env]
  /\ hookResult' = Template(name, context, faults, env, clock)
  /\ env' = EnvAfter(name, context, faults, env, clock)
  /\ UNCHANGED <<hooks, serverVars, httpVars, clock, loadVars>>

Heartbeat ==
  \E c \in BareContexts, f \in SUBSET {"checkNodeHealth"} :
    Invoke("heartbeat", c, f)

Status ==
  \E c \in BareContexts, f \in SUBSET {"getNodeInfo", "getNetworkStatus"} :
    Invoke("status", c, f)

\* each sub-check answers true, answers false, or throws
ReadyFaults ==
  {f \in SUBSET {"checkDatabaseConnection", "checkNetworkConnection",
                 "checkWalletStatus", "checkDatabaseConnection=false",
                 "checkNetworkConnection=false", "checkWalletStatus=false"} :
     /\ ~("checkDatabaseConnection" \in f /\ "checkDatabaseConnection=false" \in f)
     /\ ~("checkNetworkConnection" \in f /\ "checkNetworkConnection=false" \in f)
     /\ ~("checkWalletStatus" \in f /\ "checkWalletStatus=false" \in f)}

Ready == \E c \in BareContexts, f \in ReadyFaults : Invoke("ready", c, f)

Probe == \E c \in BareContexts : Invoke("probe", c, {})

Metrics ==
  \E c \in BareContexts, f \in SUBSET {"getNodeMetrics", "getNetworkMetrics"} :
    Invoke("metrics", c, f)

Validate == \E c \in ConfigContexts : Invoke("validate", c, {})

InstallSecrets == \E c \in SecretContexts : Invoke("installSecrets", c, {})

HookInit == Init /\ hooks \in {Exported, AllTemplate}

HookNext ==
  \/ Heartbeat
  \/ Status
  \/ Ready
  \/ Probe
  \/ Metrics
  \/ Validate
  \/ InstallSecrets
  \/ Tick

HookSpec == HookInit /\ [][HookNext]_vars

----------------------------------------------------------------------------
(* Every operation of a running service except installSecrets: the hooks   *)
(* invoked directly and the HTTP routes, on the full template registry.    *)
FrameInit == Init /\ hooks = AllTemplate

FrameNext ==
  \/ InitializeResolves
  \/ Heartbeat
  \/ Status
  \/ Ready
  \/ Probe
  \/ Metrics
  \/ Validate
  \/ GetHealth
  \/ GetMetrics
  \/ GetStatus
  \/ GetRoot
  \/ Tick

FrameSpec == FrameInit /\ [][FrameNext]_vars

----------------------------------------------------------------------------
(* Startup of the template's registry under every setting of the PORT      *)
(* variable and every configured port.                                     *)
PortVariables == {Undef, Str(<<>>), Str(<<"8", "0", "8", "0">>), Str(<<"0">>)}

ConfiguredPorts == {Undef, Int10(0), Int10(3000), Int10(7000)}

PortInit ==
  /\ env \in {[x EXCEPT !["PORT"] = v] : x \in Environments, v \in PortVariables}
  /\ configPort \in ConfiguredPorts
  /\ Started
  /\ hooks = Exported

PortNext ==
  \/ InitializeResolves
  \/ InitializeRejects
  \/ GetRoot
  \/ Tick

PortSpec == PortInit /\ [][PortNext]_vars

----------------------------------------------------------------------------
(* Properties of the server process (Spec)                                 *)

\* C1: a request to /health, /status or /metrics whose hook throws is
\* answered with HTTP 500 and the body {error: <the thrown message>}; no
\* request ends the process, which is still running and listening after it.
C1_ThrowingHookGives500 ==
  /\ response.hook = "threw" =>
       /\ response.code = 500
       /\ response.body = [error |-> response.outcome.error.message]
  /\ exitCause # "unhandled rejection in route"
  /\ (served > 0 /\ Running) => listening

\* a request whose hook threw was answered 500 after an earlier request had
\* been answered 500 too, in a deployment where both hooks are registered
C1_Witness ==
  /\ hooks["status"] = "custom" /\ hooks["metrics"] = "custom"
  /\ errSeen
  /\ response.hook = "threw" /\ response.code = 500
  /\ Running


\* C2: GET /metrics answers 200 with the placeholder whenever no metrics hook
\* is registered (never 500), and 200 with the hook's own result whenever a
\* registered metrics hook returns one.
C2_MetricsPlaceholder ==
  response.route = "/metrics" =>
    /\ hooks["metrics"] = "absent" =>
         (response.code = 200 /\ response.body = NotImplemented)
    /\ response.hook = "returned" =>
         (response.code = 200 /\ response.body = response.outcome.value)

\* the registry as exported answered GET /metrics with the placeholder
C2_Witness ==
  /\ hooks = Exported
  /\ response.route = "/metrics"
  /\ response.code = 200
  /\ response.body = NotImplemented

\* C4: no route answers HTTP 500 merely because the hook it would invoke is
\* absent from the registry.
C4_AbsentHookIsNotAnError ==
  response.hook = "absent" => response.code # 500

\* C5: if riptide.initialize() fails the error is logged, the process exits
\* with a non-zero code, and it never listened nor served a request.
C5_StartupFailureIsFatal ==
  initState = "rejected" =>
    /\ "Failed to start server" \in errorLog
    /\ exitCode # NotExited /\ exitCode # 0
    /\ ~listening
    /\ served = 0

C5_Witness ==
  /\ initState = "rejected"
  /\ exitCode = 1
  /\ exitCause = "startServer"

\* C6: every signal received invokes riptide.shutdown(), and the process has
\* exited with code 0 only if a shutdown() was invoked and has completed.
C6_ExitZeroAfterShutdown ==
  /\ shutdownCalls = Len(signals)
  /\ exitCode = 0 => (shutdownCalls >= 1 /\ shutdownDone >= 1)

C6_Witness ==
  /\ exitCode = 0
  /\ exitCause \in {"SIGTERM", "SIGINT"}
  /\ shutdownDone >= 1

\* C7: once a termination signal has been received no HTTP request is
\* accepted and served.
C7_NoRequestAfterSignal ==
  servedAfterSignal = 0

\* C8: the server listens, and serves requests, only after
\* riptide.initialize() has completed successfully.
C8_ListenAfterInitialize ==
  (listening \/ served > 0) => initState = "resolved"

C8_Witness ==
  /\ listening
  /\ served > 0
  /\ initState = "resolved"

----------------------------------------------------------------------------
(* Properties of the hook handlers (HookSpec)                              *)

\* the try-block of the handler last invoked, run on the same arguments
BodyOf(in) ==
  CASE in.hook = "heartbeat" -> heartbeatBody(in.context, in.faults, in.env, clock)
    [] in.hook = "status"    -> statusBody(in.context, in.faults, in.env, clock)
    [] in.hook = "ready"     -> readyBody(in.context, in.faults, in.env, clock)
    [] in.hook = "probe"     -> probeBody(in.context, in.faults, in.env, clock)
    [] in.hook = "metrics"   -> metricsBody(in.context, in.faults, in.env, clock)
    [] in.hook = "validate"  -> validateBody(in.context, in.faults, in.env, clock)
    [] OTHER -> installSecretsBody(in.context, in.faults, in.env, clock)

\* a result object that reports a failure
ErrorIndicator(v) ==
  \/ "error" \in DOMAIN v
  \/ "errors" \in DOMAIN v /\ v.errors # <<>> /\ v.valid = FALSE

\* C3: no hook handler rejects; whatever the context and whichever helper
\* fails, the handler resolves to a result object, and when its logic failed
\* that object carries an error indicator.
C3_HooksNeverThrow ==
  hookInput.hook # "none" =>
    /\ hookResult.kind = "return"
    /\ BodyOf(hookInput).kind = "throw" => ErrorIndicator(hookResult.value)

\* validate was invoked without a context and resolved to an error result
C3_Witness ==
  /\ hookInput.hook = "validate"
  /\ hookInput.context = Undef
  /\ hookResult.kind = "return"
  /\ hookResult.value.valid = FALSE

\* validate was invoked on a context whose config is an object
ValidateRan ==
  /\ hookInput.hook = "validate"
  /\ hookResult.kind = "return"
  /\ ~Nullish(hookInput.context)
  /\ Get(hookInput.context, "config").t = "object"

GivenService == Get(Get(hookInput.context, "config"), "service")
GivenName == OptGet(GivenService, "name")
GivenPort == OptGet(GivenService, "port")

Reports(m) ==
  \E i \in DOMAIN hookResult.value.errors : hookResult.value.errors[i] = m

\* an integer within 1..65535
IsPort(x) ==
  x.t = "number" /\ x.v % 10 = 0 /\ x.v >= 10 /\ x.v <= 655350

NameMissing == GivenName \in {Undef, Null, Str(<<>>)}
PortOutOfRange ==
  \/ GivenPort = Undef
  \/ GivenPort.t = "number" /\ (GivenPort.v < 10 \/ GivenPort.v > 655350)

\* C9: validate reports a missing service.name and a service.port of 70000
\* with valid:false and the matching error string, accepts a non-empty name
\* with a port in 1..65535 with valid:true and no errors, and lists the name
\* violation before the port violation when both rules are violated.
C9_ValidateRules ==
  ValidateRan =>
    /\ GivenName = Undef =>
         (hookResult.value.valid = FALSE /\ Reports(NameRequired))
    /\ GivenPort = Int10(70000) =>
         (hookResult.value.valid = FALSE /\ Reports(PortRequired))
    /\ (GivenName.t = "string" /\ GivenName.s # <<>> /\ IsPort(GivenPort)) =>
         (hookResult.value.valid = TRUE /\ hookResult.value.errors = <<>>)
    /\ (NameMissing /\ PortOutOfRange) =>
         hookResult.value.errors = <<NameRequired, PortRequired>>

\* validate ran on a config with no name and port 70000
C9_Witness ==
  /\ ValidateRan
  /\ GivenName = Undef
  /\ GivenPort = Int10(70000)
  /\ hookResult.value.errors = <<NameRequired, PortRequired>>

\* C10: validate answers valid:false for every config whose service.port is
\* not an integer within 1..65535.
C10_PortMustBeInteger ==
  (ValidateRan /\ ~IsPort(GivenPort)) => hookResult.value.valid = FALSE


\* validate was invoked on a context from which no config can be read
NoConfigGiven ==
  /\ hookInput.hook = "validate"
  /\ \/ Nullish(hookInput.context)
     \/ Nullish(Get(hookInput.context, "config"))

\* C11: validate never throws; when reading the rules' input raises an error
\* (no context, or a context without config) it resolves to valid:false with
\* errors holding exactly the one message of that error.
C11_ValidateWrapsErrors ==
  hookInput.hook = "validate" =>
    /\ hookResult.kind = "return"
    /\ NoConfigGiven =>
         /\ hookResult.value.valid = FALSE
         /\ Len(hookResult.value.errors) = 1
         /\ hookResult.value.errors[1] = BodyOf(hookInput).error.message
         /\ DOMAIN hookResult.value = {"valid", "errors"}

\* validate ran on a context object that has no config
C11_Witness ==
  /\ hookInput.hook = "validate"
  /\ hookInput.context = Obj(<<>>)
  /\ hookResult.kind = "return"
  /\ hookResult.value.errors =
       <<"Cannot read properties of undefined (reading 'service')">>


ReadyChecks == {"checkDatabaseConnection", "checkNetworkConnection",
                "checkWalletStatus"}

\* C12: whatever the three sub-checks answer, the `ready` field equals the
\* conjunction of all values of the returned `checks`, which are the
\* sub-checks' answers; if a sub-check throws the result is
\* {ready: false, error: <message>}.
C12_ReadyIsConjunction ==
  hookInput.hook = "ready" =>
    /\ hookResult.kind = "return"
    /\ "checks" \in DOMAIN hookResult.value =>
         hookResult.value.ready =
           (\A k \in DOMAIN hookResult.value.checks : hookResult.value.checks[k])
    /\ hookInput.faults \cap ReadyChecks = {} =>
         hookResult.value.checks =
           [database |-> "checkDatabaseConnection=false" \notin hookInput.faults,
            network  |-> "checkNetworkConnection=false" \notin hookInput.faults,
            wallet   |-> "checkWalletStatus=false" \notin hookInput.faults]
    /\ hookInput.faults \cap ReadyChecks # {} =>
         /\ DOMAIN hookResult.value = {"ready", "error"}
         /\ hookResult.value.ready = FALSE
         /\ hookResult.value.error \in hookInput.faults \cap ReadyChecks

\* ready ran with only the wallet check answering false
C12_Witness ==
  /\ hookInput.hook = "ready"
  /\ hookInput.faults = {"checkWalletStatus=false"}
  /\ hookResult.value.ready = FALSE
  /\ hookResult.value.checks.database = TRUE


\* the value is an ISO timestamp taken no later than now
IsTimestamp(x) == \E t \in 0..clock : x = ISOString(t)

\* C13: every result of heartbeat, status and metrics has a `timestamp`, on
\* success and on failure; a failed heartbeat reports status 'unhealthy' with
\* `error`, a failed status hook reports status 'error' with `error`.
C13_TimestampAlways ==
  hookInput.hook \in {"heartbeat", "status", "metrics"} =>
    /\ hookResult.kind = "return"
    /\ "timestamp" \in DOMAIN hookResult.value
    /\ IsTimestamp(hookResult.value.timestamp)
    /\ (hookInput.hook = "heartbeat" /\ hookInput.faults # {}) =>
         /\ hookResult.value.status = "unhealthy"
         /\ hookResult.value.error \in hookInput.faults
    /\ (hookInput.hook = "heartbeat" /\ hookInput.faults = {}) =>
         hookResult.value.status = "healthy"
    /\ (hookInput.hook = "status" /\ hookInput.faults # {}) =>
         /\ hookResult.value.status = "error"
         /\ hookResult.value.error \in hookInput.faults
    /\ (hookInput.hook = "metrics" /\ hookInput.faults # {}) =>
         hookResult.value.error \in hookInput.faults

\* heartbeat ran while checkNodeHealth failed
C13_Witness ==
  /\ hookInput.hook = "heartbeat"
  /\ hookInput.faults = {"checkNodeHealth"}
  /\ hookResult.value.status = "unhealthy"
  /\ "timestamp" \in DOMAIN hookResult.value


\* C14: when the template's status hook fails inside (a helper throws),
\* GET /health and GET /status still get a result object from it and answer
\* HTTP 200 with a body whose status is 'error' and that carries `error` and
\* `timestamp`; a route whose hook was called answers 500 only when an
\* exception escaped that hook.
C14_HookErrorsAreData ==
  response.route \in {"/health", "/status"} =>
    /\ hooks["status"] = "template" =>
         /\ response.hook = "returned"
         /\ response.code = 200
         /\ response.body = response.outcome.value
         /\ response.body.status \in {"running", "error"}
         /\ "timestamp" \in DOMAIN response.body
         /\ response.body.status = "error" =>
              response.body.error \in {"getNodeInfo", "getNetworkStatus"}
    /\ (response.hook \in {"returned", "threw"} /\ response.code = 500) =>
         response.hook = "threw"

\* GET /health was answered 200 with the status hook's error result
C14_Witness ==
  /\ response.route = "/health"
  /\ hooks["status"] = "template"
  /\ response.code = 200
  /\ response.body.status = "error"
  /\ response.body.error = "getNodeInfo"
  /\ "timestamp" \in DOMAIN response.body


----------------------------------------------------------------------------
(* installSecrets (HookSpec)                                               *)

\* installSecrets was invoked and returned success:true
InstalledOK ==
  /\ hookInput.hook = "installSecrets"
  /\ hookResult.kind = "return"
  /\ hookResult.value.success = TRUE

\* the entries of context.secrets of the last invocation
GivenSecrets == Entries(OrElse(Get(hookInput.context, "secrets"), Obj(<<>>)))

\* `installed` names exactly the keys of `secrets`
InstalledNamesTheKeys ==
  /\ hookResult.value.installed.t = "object"
  /\ Len(hookResult.value.installed.e) = Len(GivenSecrets)
  /\ \A i \in DOMAIN GivenSecrets :
       hookResult.value.installed.e[i] = <<GivenSecrets[i][1], "installed">>

\* the context is an object without secrets
NoSecretsGiven ==
  /\ hookInput.hook = "installSecrets"
  /\ ~Nullish(hookInput.context)
  /\ ~Truthy(Get(hookInput.context, "secrets"))

\* C15 as stated: after success:true every name in `secrets` is set in the
\* process environment to its value, `installed` names exactly the keys of
\* `secrets`, and with no `secrets` the result is success:true with an empty
\* `installed`.
C15_EnvHoldsTheValue ==
  /\ InstalledOK =>
       /\ \A i \in DOMAIN GivenSecrets :
            env[GivenSecrets[i][1]] = GivenSecrets[i][2]
       /\ InstalledNamesTheKeys
  /\ NoSecretsGiven => (InstalledOK /\ hookResult.value.installed = Obj(<<>>))

\* C15 (amended): after success:true every name in `secrets` is set in the
\* process environment to the string form of its value (the value itself when
\* it is a string), `installed` names exactly the keys of `secrets`, and with
\* no `secrets` in the context the result is success:true with an empty
\* `installed`.
C15_EnvHoldsTheString ==
  /\ InstalledOK =>
       /\ \A i \in DOMAIN GivenSecrets :
            /\ env[GivenSecrets[i][1]].t = "string"
            /\ env[GivenSecrets[i][1]] = ToString(GivenSecrets[i][2]).value
            /\ GivenSecrets[i][2].t = "string" =>
                 env[GivenSecrets[i][1]] = GivenSecrets[i][2]
       /\ InstalledNamesTheKeys
  /\ NoSecretsGiven => (InstalledOK /\ hookResult.value.installed = Obj(<<>>))

\* two secrets were installed, one of them the number 5, now the string "5"
C15_Witness ==
  /\ InstalledOK
  /\ Len(GivenSecrets) = 2
  /\ \E i \in DOMAIN GivenSecrets :
       /\ GivenSecrets[i][2] = Int10(5)
       /\ env[GivenSecrets[i][1]] = Str(<<"5">>)


----------------------------------------------------------------------------
(* Frame of the process environment (FrameSpec)                            *)

\* C16: no invocation of heartbeat, status, ready, probe, metrics or validate
\* and no request to /, /health, /status or /metrics changes the process
\* environment.
C16_EnvUnchanged ==
  [][env' = env]_vars

\* a hook has been invoked directly and a hook-backed route has answered,
\* with the environment as it was before that invocation
C16_Witness ==
  /\ hookInput.hook = "status"
  /\ response.route \in {"/health", "/metrics"}
  /\ response.hook = "returned"
  /\ hookInput.env = env


----------------------------------------------------------------------------
(* probe (HookSpec)                                                        *)

\* C17: every invocation of probe returns alive:true, and of two successive
\* invocations of probe (with nothing but time passing in between) the later
\* one returns an uptime that is not smaller.
C17_ProbeMonotone ==
  [][/\ hookInput'.hook = "probe" =>
          /\ hookResult'.kind = "return"
          /\ hookResult'.value.alive = TRUE
     /\ (hookInput.hook = "probe" /\ hookInput'.hook = "probe") =>
          hookResult'.value.uptime >= hookResult.value.uptime]_vars

\* probe was invoked after time had passed: its uptime has grown
C17_Witness ==
  /\ hookInput.hook = "probe"
  /\ hookResult.value.alive = TRUE
  /\ hookResult.value.uptime >= 1


----------------------------------------------------------------------------
(* The routes compared (Spec)                                              *)

\* C18: in every state of the registry, the environment and the clock, and
\* for every outcome of the status hook (a result, a result reporting a
\* failed helper, an exception, no hook at all), GET /health and GET /status
\* answer with the same status code and the same body.
C18_HealthIsStatus ==
  \A faults \in FaultSets, custom \in CustomOutcomes :
    healthRoute(hooks, faults, custom, env, clock)
      = statusRoute(hooks, faults, custom, env, clock)

\* GET /health has answered 500 for a missing status hook, as GET /status
\* would in the same state
C18_Witness ==
  /\ response.route = "/health"
  /\ response.hook = "absent"
  /\ response.code = statusRoute(hooks, {}, NoResult, env, clock).code
  /\ response.body = statusRoute(hooks, {}, NoResult, env, clock).body


----------------------------------------------------------------------------
(* metrics (HookSpec)                                                      *)

\* the metrics hook was invoked and returned
MetricsRan ==
  /\ hookInput.hook = "metrics"
  /\ hookResult.kind = "return"

\* C19: a result of the metrics hook that carries `error` carries `timestamp`
\* and neither `node` nor `network`; any other result is a snapshot carrying
\* `timestamp`, `node`, `network` and `system`; a failing helper gives the
\* former, no failing helper the latter.
C19_MetricsDistinguishable ==
  hookInput.hook = "metrics" =>
    /\ hookResult.kind = "return"
    /\ IF "error" \in DOMAIN hookResult.value
       THEN /\ DOMAIN hookResult.value = {"error", "timestamp"}
            /\ hookInput.faults # {}
       ELSE /\ DOMAIN hookResult.value
                 = {"timestamp", "node", "network", "system"}
            /\ hookInput.faults = {}
    /\ IsTimestamp(hookResult.value.timestamp)

\* the metrics hook failed in its second helper, after the node's metrics
\* had been collected
C19_Witness ==
  /\ MetricsRan
  /\ hookInput.faults = {"getNetworkMetrics"}
  /\ hookResult.value.error = "getNetworkMetrics"


----------------------------------------------------------------------------
(* GET / (Spec)                                                            *)

\* the descriptor GET / sends at time t
Descriptor(t) ==
  [service |-> config.service.name,
   version |-> config.service.version,
   description |-> config.service.description,
   status |-> "running",
   timestamp |-> ISOString(t)]

----------------------------------------------------------------------------
(* The listening port (PortSpec)                                           *)

\* the PORT variable is set to a non-empty value
PortVariableSet == env["PORT"].t = "string" /\ env["PORT"].s # <<>>

\* config.service.port is present and not zero
PortConfigured == configPort.t = "number" /\ configPort.v # 0

\* C21: the server listens on the PORT environment variable when that is set
\* to a non-empty value, otherwise on config.service.port when that is
\* present and not zero, otherwise on 3000.
C21_PortSelection ==
  listening =>
    PORT = IF PortVariableSet THEN env["PORT"]
           ELSE IF PortConfigured THEN configPort
           ELSE Int10(3000)

\* the server listens on the PORT variable although a different port is
\* configured
C21_Witness ==
  /\ listening
  /\ PortVariableSet
  /\ PortConfigured
  /\ PORT = env["PORT"]
  /\ configPort = Int10(7000)


----------------------------------------------------------------------------
(* Signals and shutdown (Spec)                                             *)

\* the process was ended by a call of process.exit (index.js 91, 99, 105)
ExitCalled == exitCause \in {"startServer", "SIGTERM", "SIGINT"}

\* C22: after a termination signal, once every shutdown() a handler awaits
\* has settled (resolved or rejected), the process has called process.exit.
C22_SignalLeadsToExit ==
  (signals # <<>> /\ shutdownPending = <<>>) => ExitCalled


\* C23: riptide.shutdown() is called only on a client whose initialize() has
\* completed, whenever the signal arrives.
C23_ShutdownAfterInitialize ==
  shutdownCalls > 0 => initState = "resolved"

\* C24: riptide.shutdown() is called at most once in a process lifetime,
\* whatever signals arrive and whenever.
C24_ShutdownAtMostOnce ==
  shutdownCalls <= 1


----------------------------------------------------------------------------
(* installSecrets and the environment (HookSpec)                           *)

\* installSecrets was invoked and returned success:false
InstallFailed ==
  /\ hookInput.hook = "installSecrets"
  /\ hookResult.kind = "return"
  /\ hookResult.value.success = FALSE

\* C25: whenever installSecrets returns success:false, the process
\* environment is what it was before the call.
C25_AllOrNothing ==
  InstallFailed => env = hookInput.env


\* the step invokes installSecrets with the context of the invocation before
InstalledAgain ==
  /\ hookInput.hook = "installSecrets"
  /\ hookInput'.hook = "installSecrets"
  /\ hookInput'.context = hookInput.context

\* what an installSecrets result says apart from its timestamp
Said(result) ==
  IF result.value.success
  THEN <<TRUE, result.value.installed>>
  ELSE <<FALSE, result.value.error>>

\* C26: invoking installSecrets a second time in a row with the same
\* `secrets` leaves the process environment as the first invocation left it,
\* and returns the same `success` and `installed`.
C26_InstallIdempotent ==
  [][InstalledAgain => (env' = env /\ Said(hookResult') = Said(hookResult))]_vars

\* installSecrets has run on an environment that already held the secrets it
\* was given, two of them
C26_Witness ==
  /\ InstalledOK
  /\ Len(GivenSecrets) = 2
  /\ hookInput.env = env
  /\ \A i \in DOMAIN GivenSecrets : hookInput.env[GivenSecrets[i][1]] # Undef


\* the names context.secrets of the last invocation gives
GivenNames ==
  IF Nullish(hookInput.context) THEN {}
  ELSE {GivenSecrets[i][1] : i \in DOMAIN GivenSecrets}

\* C27: after an invocation of installSecrets every environment variable
\* whose name is not a key of context.secrets has the value it had before,
\* and every variable that was set before is still set.
C27_WritesOnlyTheSecrets ==
  hookInput.hook = "installSecrets" =>
    \A n \in EnvNames :
      /\ n \notin GivenNames => env[n] = hookInput.env[n]
      /\ hookInput.env[n] # Undef => env[n] # Undef

\* installSecrets installed one secret into an environment that held another
\* one, which is still there
C27_Witness ==
  /\ InstalledOK
  /\ GivenNames = {"PRIVATE_KEY"}
  /\ hookInput.env["API_KEY"] # Undef
  /\ env["API_KEY"] = hookInput.env["API_KEY"]
  /\ env["PRIVATE_KEY"] # Undef


----------------------------------------------------------------------------
(* validate: valid and errors (HookSpec)                                   *)

\* C28: in every result validate returns, on the rule-checking path and on
\* the wrapped-exception path, `valid` is true exactly when `errors` is empty.
C28_ValidIffNoErrors ==
  hookInput.hook = "validate" =>
    /\ hookResult.kind = "return"
    /\ hookResult.value.valid = (hookResult.value.errors = <<>>)

\* validate wrapped the exception of a missing config into one error
C28_Witness ==
  /\ NoConfigGiven
  /\ hookResult.kind = "return"
  /\ hookResult.value.valid = FALSE
  /\ Len(hookResult.value.errors) = 1

====
